---- MODULE Spec2Model ----
(***************************************************************************)
(* krun: a thermal governor.  main() validates two thresholds, initialises *)
(* the sensors, forks a child and then loops: sample the temperature,      *)
(* suspend the child's process group when it is too hot, resume it when it *)
(* has cooled, forward a Ctrl-C as SIGKILL, and leave when waitid() on the *)
(* child returns non-zero.  The only asynchrony is the SIGINT handler and  *)
(* the child itself.                                                       *)
(***************************************************************************)
EXTENDS Integers, Sequences, FiniteSets, TLC

\* ------------------------------------------------------------------ bounds
MaxSamples == 4          \* samples taken once the scripted feed is used up
MaxInts == 2             \* deliveries of SIGINT explored

\* -------------------------------------------------------- program constants
NUM_TEMPERATURE_FEATURES == 6
SIGKILL == 9
MaxHot == 90
MinCool == 30
ExitFatal == 255         \* exit(-1) as seen by the parent of the governor

\* A double that is not a number (strtod of "nan"); every other double of the
\* model is an integer.
NaN == -1000
\* detect_temp starts its maximum at -1.0
InitialMax == -1
\* no status yet (model value, not a status a process can report)
NoStatus == 0 - 1

\* IEEE comparisons: every ordered comparison with a NaN is false.
Gt(a, b) == a # NaN /\ b # NaN /\ a > b
Lt(a, b) == a # NaN /\ b # NaN /\ a < b
Le(a, b) == a # NaN /\ b # NaN /\ a <= b

\* ------------------------------------------------------------------ inputs
DigitChars == {"0", "1", "2", "3", "4", "5", "6", "7", "8", "9"}
Digit(c) ==
    CASE c = "0" -> 0 [] c = "1" -> 1 [] c = "2" -> 2 [] c = "3" -> 3
      [] c = "4" -> 4 [] c = "5" -> 5 [] c = "6" -> 6 [] c = "7" -> 7
      [] c = "8" -> 8 [] c = "9" -> 9

RECURSIVE ParseDigits(_, _)
ParseDigits(s, acc) ==
    IF s = <<>> \/ Head(s) \notin DigitChars THEN acc
    ELSE ParseDigits(Tail(s), acc * 10 + Digit(Head(s)))

\* strtod(s, NULL) on the argument words of the model: the longest decimal
\* prefix is converted, "nan" gives a NaN, no prefix gives 0.
strtod(s) ==
    IF s = <<"n", "a", "n">> THEN NaN ELSE ParseDigits(s, 0)

Prog == <<"p">>
Krun == <<"k">>
\* The argument vectors explored: argv[0], thresholds, the child's command.
ArgvSet ==
    { <<Krun, <<"9", "1">>, <<"5", "0">>, Prog>>,
      <<Krun, <<"8", "0">>, <<"2", "0">>, Prog>>,
      <<Krun, <<"5", "0">>, <<"6", "0">>, Prog>>,
      <<Krun, <<"7", "0">>, <<"5", "0">>, Prog>>,
      <<Krun, <<"5", "0">>, <<"5", "0">>, Prog, Prog>>,
      <<Krun, <<"7", "0">>, <<"n", "a", "n">>, Prog>>,
      <<Krun, <<"7", "0">>, <<"5", "0">>>>,
      <<Krun, <<"x">>, <<"5", "0">>, Prog>> }

\* Values one sensor can read.
Temps == {40, 50, 60, 70, 80}
\* Exit codes of a child that exits by itself.
ExitCodes == {0, 3}

VARIABLES
    argv,            \* main's argv (argc = Len(argv)); C's argv[i] is argv[i+1]
    hot_threshold, cool_threshold,
    pc,              \* position of main
    sensors_ready,   \* sensors_init() done and not yet cleaned up
    hot,             \* main's local: 1 while the child is suspended
    killed, hot_killed,   \* the two volatile flags
    t,               \* main's local: the last sample
    si_status,       \* si.si_status
    exit_status,     \* status the governor process ended with, or NoStatus
    child,           \* "none", "running", "stopped", "zombie", "reaped"
    child_status,    \* what a zombie reports: exit code or signal number
    kill_pending,    \* a SIGKILL was sent and has not yet taken effect
    feed,            \* readings (one value per handle) the sensors deliver first
    \* history, read by no action's guard
    notices,         \* numeric prefixes of the lines printed to stdout
    suspends, resumes, kills,   \* calls of suspend, resume, kill_child
    suspend_rc,      \* rc of the last suspend(): 0, -1, or NoStatus before any
    since_suspend,   \* samples taken since the last suspend()
    nsamples,        \* samples taken
    ints,            \* value of hot at each delivery of SIGINT
    pend_hot,        \* SIGINT was delivered while hot = 1 and no kill since
    reported,        \* status waitid reported for the exited child
    pend_int,        \* SIGINT was delivered and kill_child not called since
    read_failed,     \* a sensors_get_value() of detect_temp failed
    \* the child between fork and exec
    child_pc,        \* "none", "forked", "grouped" (setpgid done), "execd"
    child_pgid       \* whose pid the child's process group id is

vars == <<argv, hot_threshold, cool_threshold, pc, sensors_ready, hot, killed,
          hot_killed, t, si_status, exit_status, child, child_status,
          kill_pending, feed, notices, suspends, resumes, kills, suspend_rc,
          since_suspend, nsamples, ints, pend_hot, reported, pend_int,
          read_failed, child_pc, child_pgid>>

argc == Len(argv)
Arg(i) == argv[i + 1]

InitWith(a, f) ==
    /\ argv = a
    /\ feed = f
    /\ hot_threshold = 0
    /\ cool_threshold = 0
    /\ pc = "main"
    /\ sensors_ready = FALSE
    /\ hot = 0
    /\ killed = 0
    /\ hot_killed = 0
    /\ t = 0
    /\ si_status = 0
    /\ exit_status = NoStatus
    /\ child = "none"
    /\ child_status = NoStatus
    /\ kill_pending = FALSE
    /\ notices = <<>>
    /\ suspends = 0
    /\ resumes = 0
    /\ kills = 0
    /\ suspend_rc = NoStatus
    /\ since_suspend = 0
    /\ nsamples = 0
    /\ ints = <<>>
    /\ pend_hot = FALSE
    /\ reported = NoStatus
    /\ pend_int = FALSE
    /\ read_failed = FALSE
    /\ child_pc = "none"
    /\ child_pgid = "none"

Init == \E a \in ArgvSet : InitWith(a, <<>>)

\* The end-to-end scenario of the specification: thresholds 75 and 60, the
\* readings 70, 76, 76, 58, 58, after which the sensors keep reading 58.
E2EArgv == <<Krun, <<"7", "5">>, <<"6", "0">>, Prog>>
E2EFeed == <<70, 76, 76, 58, 58>>
E2EAfter == <<58, 58>>
\* All handles read v.
Uniform(v) == [i \in 1..NUM_TEMPERATURE_FEATURES |-> v]
InitE2E ==
    LET readings == E2EFeed \o E2EAfter
    IN  InitWith(E2EArgv, [j \in 1..Len(readings) |-> Uniform(readings[j])])

\* One call of detect_temp at the head of the loop, on any six readings.
DetectValues == {0 - 5, 0 - 2, 0, 50}
DetectArgv == <<Krun, <<"7", "0">>, <<"5", "0">>, Prog>>

InitDetect ==
    /\ argv = DetectArgv
    /\ feed \in {<<v>> : v \in [1..NUM_TEMPERATURE_FEATURES -> DetectValues]}
    /\ hot_threshold = strtod(DetectArgv[2])
    /\ cool_threshold = strtod(DetectArgv[3])
    /\ pc = "sample"
    /\ sensors_ready = TRUE
    /\ hot = 0
    /\ killed = 0
    /\ hot_killed = 0
    /\ t = 0
    /\ si_status = 0
    /\ exit_status = NoStatus
    /\ child = "running"
    /\ child_status = NoStatus
    /\ kill_pending = FALSE
    /\ notices = <<>>
    /\ suspends = 0
    /\ resumes = 0
    /\ kills = 0
    /\ suspend_rc = NoStatus
    /\ since_suspend = 0
    /\ nsamples = 0
    /\ ints = <<>>
    /\ pend_hot = FALSE
    /\ reported = NoStatus
    /\ pend_int = FALSE
    /\ read_failed = FALSE
    /\ child_pc = "execd"
    /\ child_pgid = "child"

\* ------------------------------------------------------------ the governor
Fatal ==
    /\ pc' = "fatal"
    /\ exit_status' = ExitFatal

\* main, lines 213-237: argument checks, init(), si.si_status = 0.
Main ==
    /\ pc = "main"
    /\ UNCHANGED <<argv, pend_int, read_failed, child_pc, child_pgid,
                   hot, killed, hot_killed, t, child, child_status,
                   kill_pending, feed, notices, suspends, resumes, kills,
                   suspend_rc, since_suspend, nsamples, ints, pend_hot,
                   reported, si_status>>
    /\ IF argc < 4
       THEN Fatal /\ UNCHANGED <<hot_threshold, cool_threshold, sensors_ready>>
       ELSE
         /\ hot_threshold' = strtod(Arg(1))
         /\ IF Gt(hot_threshold', MaxHot)
            THEN Fatal /\ UNCHANGED <<cool_threshold, sensors_ready>>
            ELSE
              /\ cool_threshold' = strtod(Arg(2))
              /\ IF Lt(cool_threshold', MinCool) \/ Lt(hot_threshold', cool_threshold')
                 THEN Fatal /\ UNCHANGED sensors_ready
                 ELSE \E ok \in BOOLEAN :
                        IF ok
                        THEN /\ sensors_ready' = TRUE
                             /\ pc' = "spawn"
                             /\ UNCHANGED exit_status
                        ELSE Fatal /\ UNCHANGED sensors_ready

\* start_child, line 159: fork().  The child starts in the governor's group.
Fork ==
    /\ pc = "spawn"
    /\ pc' = "start_child"
    /\ child' = "running"
    /\ child_pc' = "forked"
    /\ child_pgid' = "governor"
    /\ UNCHANGED <<argv, pend_int, read_failed, hot_threshold, cool_threshold,
                   sensors_ready, hot, killed, hot_killed, t, si_status,
                   exit_status, child_status, kill_pending, feed, notices,
                   suspends, resumes, kills, suspend_rc, since_suspend,
                   nsamples, ints, pend_hot, reported>>

\* start_child in the parent, line 164: setpgid(p, 0) is refused (EACCES)
\* once the child has exec'd.
StartChild ==
    /\ pc = "start_child"
    /\ IF child_pc # "execd"
       THEN /\ child_pgid' = "child"
            /\ pc' = "sample"
       ELSE /\ pc' = "start_child_refused"
            /\ UNCHANGED child_pgid
    /\ UNCHANGED <<argv, pend_int, read_failed, child_pc, hot_threshold,
                   cool_threshold, sensors_ready, hot, killed, hot_killed, t,
                   si_status, exit_status, child, child_status, kill_pending,
                   feed, notices, suspends, resumes, kills, suspend_rc,
                   since_suspend, nsamples, ints, pend_hot, reported>>

\* A parent that takes every refusal of setpgid as fatal.
StartChildRefused_AlwaysFatal ==
    /\ pc = "start_child_refused"
    /\ Fatal
    /\ UNCHANGED <<argv, pend_int, read_failed, child_pc, child_pgid,
                   hot_threshold, cool_threshold, sensors_ready, hot, killed,
                   hot_killed, t, si_status, child, child_status,
                   kill_pending, feed, notices, suspends, resumes, kills,
                   suspend_rc, since_suspend, nsamples, ints, pend_hot,
                   reported>>

\* start_child in the parent, lines 165-175: after a refusal the parent
\* ends with exit(-1) only when getpgid(p) is not p.
StartChildRefused ==
    /\ pc = "start_child_refused"
    /\ IF child_pgid # "child"
       THEN Fatal
       ELSE /\ pc' = "sample"
            /\ UNCHANGED exit_status
    /\ UNCHANGED <<argv, pend_int, read_failed, child_pc, child_pgid,
                   hot_threshold, cool_threshold, sensors_ready, hot, killed,
                   hot_killed, t, si_status, child, child_status,
                   kill_pending, feed, notices, suspends, resumes, kills,
                   suspend_rc, since_suspend, nsamples, ints, pend_hot,
                   reported>>

\* start_child in the child, line 178: setpgid(0, 0).
ChildSetpgid ==
    /\ child_pc = "forked"
    /\ child = "running"
    /\ child_pc' = "grouped"
    /\ child_pgid' = "child"
    /\ UNCHANGED <<argv, pend_int, read_failed, hot_threshold, cool_threshold,
                   pc, sensors_ready, hot, killed, hot_killed, t, si_status,
                   exit_status, child, child_status, kill_pending, feed,
                   notices, suspends, resumes, kills, suspend_rc,
                   since_suspend, nsamples, ints, pend_hot, reported>>

\* start_child in the child, lines 179-182: execvp; when it fails the child
\* reports and ends with exit(-1).
ChildExec ==
    /\ child_pc = "grouped"
    /\ child = "running"
    /\ \E ok \in BOOLEAN :
         IF ok
         THEN /\ child_pc' = "execd"
              /\ UNCHANGED <<child, child_status>>
         ELSE /\ child' = "zombie"
              /\ child_status' = ExitFatal
              /\ UNCHANGED child_pc
    /\ UNCHANGED <<argv, pend_int, read_failed, child_pgid, hot_threshold,
                   cool_threshold, pc, sensors_ready, hot, killed, hot_killed,
                   t, si_status, exit_status, kill_pending, feed, notices,
                   suspends, resumes, kills, suspend_rc, since_suspend,
                   nsamples, ints, pend_hot, reported>>

\* detect_temp on the values read from the six handles.
RECURSIVE MaxFrom(_, _, _)
MaxFrom(values, i, max) ==
    IF i > NUM_TEMPERATURE_FEATURES THEN max
    ELSE MaxFrom(values, i + 1, IF values[i] > max THEN values[i] ELSE max)

detect_temp(values) == MaxFrom(values, 1, InitialMax)

\* What the six handles can read in one sample: one of them reads r, the
\* others read the lowest value.
Lowest == CHOOSE m \in Temps : \A x \in Temps : m <= x
Readings ==
    IF feed # <<>>
    THEN {Head(feed)}
    ELSE {[i \in 1..NUM_TEMPERATURE_FEATURES |-> IF i = k THEN r ELSE Lowest] :
            r \in Temps, k \in {1, NUM_TEMPERATURE_FEATURES}}

\* A detect_temp that reports a failed read and carries on with the maximum
\* so far.
Sample_ReadsOn ==
    /\ pc = "sample"
    /\ feed # <<>> \/ nsamples < MaxSamples
    /\ UNCHANGED <<argv, pend_int, child_pc, child_pgid,
                   hot_threshold, cool_threshold, sensors_ready, hot,
                   killed, hot_killed, si_status, child, child_status,
                   kill_pending, notices, suspends, resumes, kills,
                   suspend_rc, ints, pend_hot, reported, exit_status>>
    /\ \E f \in 0..NUM_TEMPERATURE_FEATURES :
         \E values \in Readings :
           /\ t' = IF f # 0 THEN InitialMax ELSE detect_temp(values)
           /\ read_failed' = (read_failed \/ f # 0)
           /\ feed' = IF feed = <<>> THEN feed ELSE Tail(feed)
           /\ nsamples' = nsamples + 1
           /\ since_suspend' = since_suspend + 1
           /\ pc' = IF hot # 0 THEN "hot_test" ELSE "cool_test"

\* Line 240-241 and 253: t = detect_temp(), then the branch on hot.  A failed
\* read of handle f (0: none fails) ends the process inside detect_temp.
Sample ==
    /\ pc = "sample"
    /\ feed # <<>> \/ nsamples < MaxSamples
    /\ UNCHANGED <<argv, pend_int, child_pc, child_pgid,
                   hot_threshold, cool_threshold, sensors_ready, hot,
                   killed, hot_killed, si_status, child, child_status,
                   kill_pending, notices, suspends, resumes, kills,
                   suspend_rc, ints, pend_hot, reported>>
    /\ \E f \in 0..NUM_TEMPERATURE_FEATURES :
         IF f # 0
         THEN /\ Fatal
              /\ read_failed' = TRUE
              /\ UNCHANGED <<t, feed, nsamples, since_suspend>>
         ELSE \E values \in Readings :
                /\ t' = detect_temp(values)
                /\ UNCHANGED read_failed
                /\ feed' = IF feed = <<>> THEN feed ELSE Tail(feed)
                /\ nsamples' = nsamples + 1
                /\ since_suspend' = since_suspend + 1
                /\ pc' = IF hot # 0 THEN "hot_test" ELSE "cool_test"
                /\ UNCHANGED exit_status

\* Lines 242-244: the test of hot_killed and the 173 notice.
HotTest ==
    /\ pc = "hot_test"
    /\ IF hot_killed # 0
       THEN /\ notices' = Append(notices, 173)
            /\ pc' = "hot_clear"
       ELSE /\ pc' = "hot_temp"
            /\ UNCHANGED notices
    /\ UNCHANGED <<argv, pend_int, read_failed, child_pc, child_pgid,
                   hot_threshold, cool_threshold, sensors_ready, hot,
                   killed, hot_killed, t, si_status, exit_status, child,
                   child_status, kill_pending, feed, suspends, resumes, kills,
                   suspend_rc, since_suspend, nsamples, ints, pend_hot,
                   reported>>

\* Mutant of HotClear: the Hot branch clears both flags.
HotClear_ClearsBoth ==
    /\ pc = "hot_clear"
    /\ hot_killed' = 0
    /\ killed' = 0
    /\ pc' = "hot_temp"
    /\ UNCHANGED <<argv, pend_int, read_failed, child_pc, child_pgid,
                   hot_threshold, cool_threshold, sensors_ready, hot,
                   t, si_status, exit_status, child, child_status,
                   kill_pending, feed, notices, suspends, resumes, kills,
                   suspend_rc, since_suspend, nsamples, ints, pend_hot,
                   reported>>

\* Line 245: hot_killed = 0.
HotClear ==
    /\ pc = "hot_clear"
    /\ hot_killed' = 0
    /\ pc' = "hot_temp"
    /\ UNCHANGED <<argv, pend_int, read_failed, child_pc, child_pgid,
                   hot_threshold, cool_threshold, sensors_ready, hot,
                   killed, t, si_status, exit_status, child, child_status,
                   kill_pending, feed, notices, suspends, resumes, kills,
                   suspend_rc, since_suspend, nsamples, ints, pend_hot,
                   reported>>

\* kill(-child, sig) or kill(child, sig): ESRCH once the child is reaped;
\* otherwise it succeeds or is refused (EPERM).
SignalResults == IF child = "reaped" THEN {-1} ELSE {0, -1}

\* Mutant of HotTemp: the transition to Cool forgets to call resume().
HotTemp_NoResume ==
    /\ pc = "hot_temp"
    /\ pc' = "sleep"
    /\ IF Lt(t, cool_threshold)
       THEN /\ hot' = 0
            /\ notices' = Append(notices, 172)
       ELSE UNCHANGED <<hot, notices>>
    /\ UNCHANGED <<argv, pend_int, read_failed, child_pc, child_pgid,
                   hot_threshold, cool_threshold, sensors_ready, killed,
                   hot_killed, t, si_status, exit_status, child_status,
                   kill_pending, feed, suspends, kills, suspend_rc,
                   since_suspend, nsamples, ints, pend_hot, reported, resumes,
                   child>>

\* Mutant of HotTemp: a Hot iteration whose sample is still above
\* hot_threshold sends the stop signal again when the last one failed.
HotTemp_Retry ==
    /\ pc = "hot_temp"
    /\ pc' = "sleep"
    /\ IF Lt(t, cool_threshold)
       THEN /\ hot' = 0
            /\ notices' = Append(notices, 172)
            /\ resumes' = resumes + 1
            /\ \E rc \in SignalResults :
                 child' = IF rc = 0 /\ child = "stopped" THEN "running" ELSE child
            /\ UNCHANGED <<suspends, suspend_rc, since_suspend>>
       ELSE IF Gt(t, hot_threshold) /\ suspend_rc # 0
       THEN /\ suspends' = suspends + 1
            /\ since_suspend' = 0
            /\ \E rc \in SignalResults :
                 /\ suspend_rc' = rc
                 /\ child' = IF rc = 0 /\ child = "running" THEN "stopped" ELSE child
            /\ UNCHANGED <<hot, notices, resumes>>
       ELSE UNCHANGED <<hot, notices, resumes, child, suspends, suspend_rc,
                        since_suspend>>
    /\ UNCHANGED <<argv, pend_int, read_failed, child_pc, child_pgid,
                   hot_threshold, cool_threshold, sensors_ready, killed,
                   hot_killed, t, si_status, exit_status, child_status,
                   kill_pending, feed, kills, nsamples, ints, pend_hot,
                   reported>>

\* Mutant of HotTemp: the resume is made without recording hot = 0.
HotTemp_KeepsHot ==
    /\ pc = "hot_temp"
    /\ pc' = "sleep"
    /\ IF Lt(t, cool_threshold)
       THEN /\ hot' = hot
            /\ notices' = Append(notices, 172)
            /\ resumes' = resumes + 1
            /\ \E rc \in SignalResults :
                 child' = IF rc = 0 /\ child = "stopped" THEN "running" ELSE child
       ELSE UNCHANGED <<hot, notices, resumes, child>>
    /\ UNCHANGED <<argv, pend_int, read_failed, child_pc, child_pgid,
                   hot_threshold, cool_threshold, sensors_ready, killed,
                   hot_killed, t, si_status, exit_status, child_status,
                   kill_pending, feed, suspends, kills, suspend_rc,
                   since_suspend, nsamples, ints, pend_hot, reported>>

\* Lines 247-252 and resume(): hot = 0, the 172 notice, SIGCONT to the group.
HotTemp ==
    /\ pc = "hot_temp"
    /\ pc' = "sleep"
    /\ IF Lt(t, cool_threshold)
       THEN /\ hot' = 0
            /\ notices' = Append(notices, 172)
            /\ resumes' = resumes + 1
            /\ \E rc \in SignalResults :
                 child' = IF rc = 0 /\ child = "stopped" THEN "running" ELSE child
       ELSE UNCHANGED <<hot, notices, resumes, child>>
    /\ UNCHANGED <<argv, pend_int, read_failed, child_pc, child_pgid,
                   hot_threshold, cool_threshold, sensors_ready, killed,
                   hot_killed, t, si_status, exit_status, child_status,
                   kill_pending, feed, suspends, kills, suspend_rc,
                   since_suspend, nsamples, ints, pend_hot, reported>>

\* Lines 254-255: the test of killed and the 174 notice.
CoolTest ==
    /\ pc = "cool_test"
    /\ IF killed # 0
       THEN /\ notices' = Append(notices, 174)
            /\ pc' = "cool_clear"
       ELSE /\ pc' = "cool_reap"
            /\ UNCHANGED notices
    /\ UNCHANGED <<argv, pend_int, read_failed, child_pc, child_pgid,
                   hot_threshold, cool_threshold, sensors_ready, hot,
                   killed, hot_killed, t, si_status, exit_status, child,
                   child_status, kill_pending, feed, suspends, resumes, kills,
                   suspend_rc, since_suspend, nsamples, ints, pend_hot,
                   reported>>

\* Mutant of CoolClear: the flag is cleared and the kill is skipped.
CoolClear_SkipsKill ==
    /\ pc = "cool_clear"
    /\ killed' = 0
    /\ pc' = "cool_reap"
    /\ UNCHANGED <<argv, pend_int, read_failed, child_pc, child_pgid,
                   hot_threshold, cool_threshold, sensors_ready, hot,
                   hot_killed, t, si_status, exit_status, child, child_status,
                   kill_pending, feed, notices, suspends, resumes, kills,
                   suspend_rc, since_suspend, nsamples, ints, pend_hot,
                   reported>>

\* Line 256: killed = 0.
CoolClear ==
    /\ pc = "cool_clear"
    /\ killed' = 0
    /\ pc' = "cool_kill"
    /\ UNCHANGED <<argv, pend_int, read_failed, child_pc, child_pgid,
                   hot_threshold, cool_threshold, sensors_ready, hot,
                   hot_killed, t, si_status, exit_status, child, child_status,
                   kill_pending, feed, notices, suspends, resumes, kills,
                   suspend_rc, since_suspend, nsamples, ints, pend_hot,
                   reported>>

\* Line 257 and kill_child(): SIGKILL to the child's pid.
CoolKill ==
    /\ pc = "cool_kill"
    /\ pc' = "cool_reap"
    /\ kills' = kills + 1
    /\ pend_hot' = FALSE
    /\ pend_int' = FALSE
    /\ \E rc \in SignalResults :
         kill_pending' = IF rc = 0 /\ child \in {"running", "stopped"}
                         THEN TRUE ELSE kill_pending
    /\ UNCHANGED <<argv, read_failed, child_pc, child_pgid,
                   hot_threshold, cool_threshold, sensors_ready, hot,
                   killed, hot_killed, t, si_status, exit_status, child,
                   child_status, feed, notices, suspends, resumes,
                   suspend_rc, since_suspend, nsamples, ints, reported>>

\* Lines 259-261 and 273-274: waitid(P_PID, child, &si, WEXITED | WNOHANG).
\* It returns 0 when the child has not changed state (si zeroed) and 0 when
\* it reaps the exited child (si filled in); it returns -1 (ECHILD) when
\* there is no such child any more, and si is then left alone or zeroed,
\* depending on the kernel.  Non-zero leaves the loop: cleanup(), return.
CoolReap ==
    /\ pc = "cool_reap"
    /\ CASE child \in {"running", "stopped"} ->
              /\ si_status' = 0
              /\ pc' = "cool_temp"
              /\ UNCHANGED <<child, reported, exit_status, sensors_ready>>
         [] child = "zombie" ->
              /\ si_status' = child_status
              /\ reported' = child_status
              /\ child' = "reaped"
              /\ pc' = "cool_temp"
              /\ UNCHANGED <<exit_status, sensors_ready>>
         [] child = "reaped" ->
              /\ si_status' \in {si_status, 0}
              /\ pc' = "done"
              /\ sensors_ready' = FALSE
              /\ exit_status' = si_status' % 256
              /\ UNCHANGED <<child, reported>>
    /\ UNCHANGED <<argv, pend_int, read_failed, child_pc, child_pgid,
                   hot_threshold, cool_threshold, hot, killed,
                   hot_killed, t, child_status, kill_pending, feed, notices,
                   suspends, resumes, kills, suspend_rc, since_suspend,
                   nsamples, ints, pend_hot>>

\* Mutant of CoolTemp: the suspend is made without recording hot = 1.
CoolTemp_KeepsCool ==
    /\ pc = "cool_temp"
    /\ pc' = "sleep"
    /\ IF Gt(t, hot_threshold)
       THEN /\ notices' = Append(notices, 171)
            /\ suspends' = suspends + 1
            /\ since_suspend' = 0
            /\ \E rc \in SignalResults :
                 /\ suspend_rc' = rc
                 /\ child' = IF rc = 0 /\ child = "running" THEN "stopped" ELSE child
       ELSE UNCHANGED <<notices, suspends, since_suspend, suspend_rc, child>>
    /\ UNCHANGED <<argv, pend_int, read_failed, child_pc, child_pgid,
                   hot_threshold, cool_threshold, sensors_ready, killed,
                   hot_killed, t, si_status, exit_status, child_status,
                   kill_pending, feed, resumes, kills, nsamples, ints,
                   pend_hot, reported, hot>>

\* Mutant of CoolTemp: the comparison is t >= hot_threshold.
CoolTemp_AtThreshold ==
    /\ pc = "cool_temp"
    /\ pc' = "sleep"
    /\ IF Le(hot_threshold, t)
       THEN /\ hot' = 1
            /\ notices' = Append(notices, 171)
            /\ suspends' = suspends + 1
            /\ since_suspend' = 0
            /\ \E rc \in SignalResults :
                 /\ suspend_rc' = rc
                 /\ child' = IF rc = 0 /\ child = "running" THEN "stopped" ELSE child
       ELSE UNCHANGED <<hot, notices, suspends, since_suspend, suspend_rc, child>>
    /\ UNCHANGED <<argv, pend_int, read_failed, child_pc, child_pgid,
                   hot_threshold, cool_threshold, sensors_ready, killed,
                   hot_killed, t, si_status, exit_status, child_status,
                   kill_pending, feed, resumes, kills, nsamples, ints,
                   pend_hot, reported>>

\* Lines 262-267 and suspend(): hot = 1, the 171 notice, SIGSTOP to the group.
CoolTemp ==
    /\ pc = "cool_temp"
    /\ pc' = "sleep"
    /\ IF Gt(t, hot_threshold)
       THEN /\ hot' = 1
            /\ notices' = Append(notices, 171)
            /\ suspends' = suspends + 1
            /\ since_suspend' = 0
            /\ \E rc \in SignalResults :
                 /\ suspend_rc' = rc
                 /\ child' = IF rc = 0 /\ child = "running" THEN "stopped" ELSE child
       ELSE UNCHANGED <<hot, notices, suspends, since_suspend, suspend_rc, child>>
    /\ UNCHANGED <<argv, pend_int, read_failed, child_pc, child_pgid,
                   hot_threshold, cool_threshold, sensors_ready, killed,
                   hot_killed, t, si_status, exit_status, child_status,
                   kill_pending, feed, resumes, kills, nsamples, ints,
                   pend_hot, reported>>

\* Lines 269-271: nanosleep, then the next iteration.
Sleep ==
    /\ pc = "sleep"
    /\ pc' = "sample"
    /\ UNCHANGED <<argv, pend_int, read_failed, child_pc, child_pgid,
                   hot_threshold, cool_threshold, sensors_ready, hot,
                   killed, hot_killed, t, si_status, exit_status, child,
                   child_status, kill_pending, feed, notices, suspends,
                   resumes, kills, suspend_rc, since_suspend, nsamples, ints,
                   pend_hot, reported>>

\* ------------------------------------------------------------ environment
\* A handler that notes the interrupt in hot_killed only in state Hot.
handle_INT_HotOnly ==
    /\ pc \notin {"main", "done", "fatal"}
    /\ Len(ints) < MaxInts
    /\ killed' = 1
    /\ hot_killed' = IF hot = 1 THEN 1 ELSE hot_killed
    /\ ints' = Append(ints, hot)
    /\ pend_hot' = (pend_hot \/ hot = 1)
    /\ pend_int' = TRUE
    /\ UNCHANGED <<argv, read_failed, child_pc, child_pgid,
                   hot_threshold, cool_threshold, pc, sensors_ready, hot,
                   t, si_status, exit_status, child, child_status,
                   kill_pending, feed, notices, suspends, resumes, kills,
                   suspend_rc, since_suspend, nsamples, reported>>

\* handle_INT, once init() has installed it and while the process lives.
handle_INT ==
    /\ pc \notin {"main", "done", "fatal"}
    /\ Len(ints) < MaxInts
    /\ killed' = 1
    /\ hot_killed' = 1
    /\ ints' = Append(ints, hot)
    /\ pend_hot' = (pend_hot \/ hot = 1)
    /\ pend_int' = TRUE
    /\ UNCHANGED <<argv, read_failed, child_pc, child_pgid,
                   hot_threshold, cool_threshold, pc, sensors_ready, hot,
                   t, si_status, exit_status, child, child_status,
                   kill_pending, feed, notices, suspends, resumes, kills,
                   suspend_rc, since_suspend, nsamples, reported>>

\* The child's program ends by itself.
ChildExit ==
    /\ child = "running"
    /\ child_pc = "execd"
    /\ pc \notin {"done", "fatal"}
    /\ child' = "zombie"
    /\ \E c \in ExitCodes : child_status' = c
    /\ UNCHANGED <<argv, pend_int, read_failed, child_pc, child_pgid,
                   hot_threshold, cool_threshold, pc, sensors_ready, hot,
                   killed, hot_killed, t, si_status, exit_status,
                   kill_pending, feed, notices, suspends, resumes, kills,
                   suspend_rc, since_suspend, nsamples, ints, pend_hot,
                   reported>>

\* A SIGKILL that was sent takes effect, stopped or not.
ChildKilled ==
    /\ kill_pending
    /\ child \in {"running", "stopped"}
    /\ pc \notin {"done", "fatal"}
    /\ child' = "zombie"
    /\ child_status' = SIGKILL
    /\ kill_pending' = FALSE
    /\ UNCHANGED <<argv, pend_int, read_failed, child_pc, child_pgid,
                   hot_threshold, cool_threshold, pc, sensors_ready, hot,
                   killed, hot_killed, t, si_status, exit_status, feed,
                   notices, suspends, resumes, kills, suspend_rc,
                   since_suspend, nsamples, ints, pend_hot, reported>>

Next ==
    \/ Main
    \/ Fork
    \/ StartChild
    \/ StartChildRefused
    \/ ChildSetpgid
    \/ ChildExec
    \/ Sample
    \/ HotTest
    \/ HotClear
    \/ HotTemp
    \/ CoolTest
    \/ CoolClear
    \/ CoolKill
    \/ CoolReap
    \/ CoolTemp
    \/ Sleep
    \/ handle_INT
    \/ ChildExit
    \/ ChildKilled

Spec == Init /\ [][Next]_vars

SpecE2E == InitE2E /\ [][Next]_vars

SpecDetect == InitDetect /\ [][Sample]_vars

\* ------------------------------------------------------------------ claims
Range(s) == {s[i] : i \in DOMAIN s}
Last(s) == s[Len(s)]

\* C1: once the reap has reported the child's exit, the governor takes no
\* further sample, makes no transition and prints no notice (it leaves the
\* loop in that iteration); and the loop is left only after such a report.
C1_ReapEndsLoop ==
    /\ [](pc = "done" => reported # NoStatus)
    /\ [][reported # NoStatus =>
            nsamples' = nsamples /\ hot' = hot /\ notices' = notices]_vars

\* C2: when the governor has left the loop, its exit status is the status
\* the reap reported for the exited child.
C2_ExitStatusIsChilds ==
    pc = "done" => reported # NoStatus /\ exit_status = reported

\* The part of a Cool iteration that precedes its kill_child() call, and the
\* sleep and sample that lead to it.
BeforeKill == {"sleep", "sample", "cool_test", "cool_clear", "cool_kill"}

\* C3: an interrupt delivered while Hot causes no kill while the state stays
\* Hot: kill_child is called only in state Cool, the interrupt stays pending
\* (killed = 1) until that call, and the first Cool iteration after the
\* resume makes the call before it does anything else.
C3_KillDeferredToCool ==
    /\ [](pend_hot => killed = 1 \/ pc = "cool_kill")
    /\ [](pend_hot /\ hot = 0 => resumes >= 1 /\ pc \in BeforeKill \cup {"fatal"})
    /\ [][kills' # kills => hot = 0 /\ hot' = 0 /\ pc = "cool_kill"]_vars

\* C3 witness: one interrupt, delivered while Hot, has been followed by the
\* kill in a Cool iteration after the resume.
C3_Witness ==
    ints = <<1>> /\ kills = 1 /\ resumes = 1 /\ hot = 0 /\ pc = "cool_reap"

\* C4: after a single interrupt delivered while Cool there is at most one
\* kill, and once the reap has reported the child's exit the loop has been
\* left with the child's reported status as the governor's status.
C4_SingleCoolInterrupt ==
    ints = <<0>> =>
        /\ kills <= 1
        /\ (reported # NoStatus => pc = "done" /\ exit_status = reported)

\* C5: a Cool iteration that reaches the threshold test with t above
\* hot_threshold sets hot, prints 171 and calls suspend once; while hot is
\* set no suspend is called.
C5_OneSuspendPerTransition ==
    /\ [][pc = "cool_temp" /\ pc' # pc /\ Gt(t, hot_threshold) =>
            /\ hot = 0 /\ hot' = 1
            /\ notices' = Append(notices, 171)
            /\ suspends' = suspends + 1]_vars
    /\ [][hot = 1 => suspends' = suspends]_vars

\* C5 witness: a Hot iteration whose sample is still above hot_threshold
\* has ended and the only suspend is the one of the transition.
C5_Witness ==
    /\ hot = 1 /\ pc = "sleep" /\ since_suspend >= 1
    /\ Gt(t, hot_threshold) /\ suspends = 1 /\ Last(notices) = 171

\* C6: a Hot iteration that reaches the threshold test with t below
\* cool_threshold clears hot, prints 172 and calls resume once; resume is
\* called nowhere else, so never in a Cool iteration.
C6_OneResumePerTransition ==
    /\ [][pc = "hot_temp" /\ pc' # pc /\ Lt(t, cool_threshold) =>
            /\ hot = 1 /\ hot' = 0
            /\ notices' = Append(notices, 172)
            /\ resumes' = resumes + 1]_vars
    /\ [][resumes' # resumes => pc = "hot_temp" /\ hot = 1]_vars

\* C6 witness: the iteration that resumed the child has ended.
C6_Witness ==
    /\ hot = 0 /\ pc = "sleep" /\ resumes = 1 /\ suspends = 1
    /\ Lt(t, cool_threshold) /\ Last(notices) = 172

\* The positions of an iteration after its sample, where t is the
\* iteration's own sample.
InIteration == {"hot_test", "hot_clear", "hot_temp", "cool_test", "cool_clear",
                "cool_kill", "cool_reap", "cool_temp"}

\* C7: with cool_threshold <= t <= hot_threshold no step of the iteration
\* changes hot or calls suspend or resume.
C7_BandIsSticky ==
    [][Le(cool_threshold, t) /\ Le(t, hot_threshold) /\ pc \in InIteration =>
          hot' = hot /\ suspends' = suspends /\ resumes' = resumes]_vars

\* C7 witness: a Hot iteration sampled exactly cool_threshold and stayed
\* Hot; with it, a Cool iteration sampled exactly hot_threshold before.
C7_Witness ==
    /\ pc = "sleep" /\ hot = 1 /\ since_suspend >= 1
    /\ t = cool_threshold /\ resumes = 0

C9_Validated ==
    LET valid == /\ argc >= 4
                 /\ Le(strtod(Arg(1)), MaxHot)
                 /\ Le(MinCool, strtod(Arg(2)))
                 /\ Le(strtod(Arg(2)), strtod(Arg(1)))
    IN  /\ (sensors_ready \/ child # "none") => valid
        /\ (~valid /\ pc # "main") =>
              pc = "fatal" /\ exit_status # 0 /\ ~sensors_ready /\ child = "none"

\* C10: in the end-to-end scenario (one interrupt, delivered while Hot in
\* time to be noticed, a child that ends only by the kill) the governor,
\* when it has ended, has printed 171, 173, 172, 174, has taken the five
\* samples of the scenario and ends with the status of a killed child.
C10_EndToEnd ==
    (/\ pc = "done"
     /\ ints = <<1>> /\ 173 \in Range(notices)
     /\ child_status \in {NoStatus, SIGKILL}
     /\ reported # NoStatus)
    => /\ notices = <<171, 173, 172, 174>>
       /\ nsamples = Len(E2EFeed)
       /\ exit_status = SIGKILL

\* C11: whenever 173 has been printed and the state is still Hot, the flag
\* killed is set, so that the first Cool iteration afterwards kills.
C11_DeferredNoticeMeansPending ==
    (notices # <<>> /\ Last(notices) = 173 /\ hot = 1) => killed = 1

\* C12: once the reap has reported the child's exit, no step calls suspend,
\* resume or kill_child.
C12_NoSignalAfterReap ==
    [][reported # NoStatus =>
          suspends' = suspends /\ resumes' = resumes /\ kills' = kills]_vars

\* C13: whenever the governor process has ended after the child was
\* spawned, the state is Cool and every suspend was followed by a resume.
C13_NeverEndsHot ==
    (pc \in {"done", "fatal"} /\ child # "none") =>
        hot = 0 /\ suspends = resumes

\* C14: no interrupt is lost.  After a delivery the flag killed stays set
\* until kill_child is called (or the flag has just been cleared and the
\* call is the next step); killed is cleared only in a Cool iteration, by
\* the step right before the call, and that call is then made.
C14_NoInterruptLost ==
    /\ [](pend_int => killed = 1 \/ pc = "cool_kill")
    /\ [][killed = 1 /\ killed' = 0 =>
            hot = 0 /\ pc = "cool_clear" /\ pc' = "cool_kill"]_vars
    /\ [][pc = "cool_kill" /\ pc' # pc => kills' = kills + 1]_vars

\* C14 witness: an interrupt arrived between the clearing of killed and the
\* kill_child call of an iteration that was already serving an earlier one.
C14_Witness ==
    pc = "cool_kill" /\ killed = 1 /\ pend_int /\ Len(ints) = 2

\* C15: suspends and resumes alternate, starting with a suspend: the number
\* of suspends minus the number of resumes is 1 in state Hot and 0 in state
\* Cool.  A child that runs in state Hot is one whose stop signal failed,
\* and no child is stopped in state Cool before a resume was sent.
C15_SuspendsResumesAlternate ==
    /\ hot \in {0, 1}
    /\ suspends - resumes = hot
    /\ (hot = 1 /\ child = "running") => suspend_rc = -1
    /\ (hot = 0 /\ child = "stopped") => resumes >= 1

\* C15 witness: the second suspend, after a first suspend and its resume,
\* has stopped the child.
C15_Witness ==
    suspends = 2 /\ resumes = 1 /\ hot = 1 /\ child = "stopped"

\* C16: the reap is made only in state Cool, and when the governor has left
\* the loop after the child's exit, its exit status is the status the
\* child reported.
C16_LeavesWithChildStatus ==
    /\ [][reported' # reported => hot = 0 /\ pc = "cool_reap"]_vars
    /\ [](pc = "done" /\ reported # NoStatus => exit_status = reported)

\* C17: whatever the order of the parent's setpgid, the child's setpgid and
\* the child's exec, start_child returns only with the child leading its own
\* process group, every suspend and resume finds it so, and a refused
\* setpgid ends the governor only when the child's group is not its own.
C17_ChildLeadsOwnGroup ==
    /\ [][pc' = "sample" /\ pc \in {"start_child", "start_child_refused"} =>
            child_pgid' = "child"]_vars
    /\ [][suspends' # suspends \/ resumes' # resumes =>
            child_pgid = "child"]_vars
    /\ [][pc = "start_child_refused" /\ pc' = "fatal" =>
            child_pgid # "child"]_vars

\* C17 witness: the parent's setpgid was refused because the child, already
\* in its own group, had exec'd first.
C17_Witness ==
    pc = "start_child_refused" /\ child_pc = "execd" /\ child_pgid = "child"

\* C18: a failed read ends the governor at once with a non-zero status; the
\* step that fails changes neither hot nor the flags, sends no signal, reaps
\* nothing and prints no notice, and the governor does nothing afterwards.
C18_ReadFailureEndsAtOnce ==
    /\ [](read_failed =>
            pc = "fatal" /\ exit_status # 0 /\ exit_status # NoStatus)
    /\ [][read_failed' /\ ~read_failed =>
            /\ pc = "sample"
            /\ UNCHANGED <<hot, killed, hot_killed, suspends, resumes, kills,
                           reported, child, si_status, notices>>]_vars
    /\ [][read_failed =>
            UNCHANGED <<hot, suspends, resumes, kills, reported,
                        notices>>]_vars

\* C18 witness: the read fails in state Hot with an interrupt pending.
C18_Witness ==
    read_failed /\ pc = "fatal" /\ hot = 1 /\ killed = 1 /\ hot_killed = 1

Maximum(S) == CHOOSE m \in S : \A x \in S : x <= m

\* C19: a sample in which every read succeeds returns the largest of the
\* values read, negative values and values below -1 included.
C19_ReturnsMaximum ==
    [][pc = "sample" /\ pc' # "fatal" /\ feed # <<>> =>
         t' = Maximum(Range(Head(feed)))]_vars

====
